---- MODULE Spec2Model ----
(***************************************************************************)
(* Model of libavfilter/vf_crop.c: the crop filter's private context       *)
(* (CropContext), its link configuration (config_input, config_output)     *)
(* and its per-frame and per-slice handlers (start_frame, draw_slice).     *)
(*                                                                         *)
(* C `int` is modelled as a two's complement integer of IntBits bits.  The *)
(* source uses 32 bits; the model checker's own integers are 32 bits wide, *)
(* so the width is scaled down and every conversion to unsigned and every  *)
(* wraparound is taken modulo 2^IntBits.                                   *)
(***************************************************************************)
EXTENDS Integers, Sequences, FiniteSets, TLC

\* ------------------------------------------------------------------ bounds

\* Width of the modelled C int (bits).
IntBits == 12
\* Largest requested x, y, w, h tried besides the extreme values.
MaxArg == 2
\* Largest input link width and height.
MaxDim == 3

\* ------------------------------------------------------- machine integers

RECURSIVE Pow2(_)
Pow2(n) == IF n = 0 THEN 1 ELSE 2 * Pow2(n - 1)

INT_MAX == Pow2(IntBits - 1) - 1
INT_MIN == -Pow2(IntBits - 1)
UINT_MOD == Pow2(IntBits)

InInt(v) == INT_MIN <= v /\ v <= INT_MAX

\* (unsigned)v
ToUnsigned(v) == v % UINT_MOD
\* the int with the same bit pattern as the unsigned u
ToSigned(u) == IF u > INT_MAX THEN u - UINT_MOD ELSE u
\* unsigned + unsigned, which wraps
UAdd(a, b) == (a + b) % UINT_MOD

RECURSIVE BitAnd(_, _)
BitAnd(a, b) ==
    IF a = 0 \/ b = 0 THEN 0
    ELSE (a % 2) * (b % 2) + 2 * BitAnd(a \div 2, b \div 2)

\* a & b on ints
IntAnd(a, b) == ToSigned(BitAnd(ToUnsigned(a), ToUnsigned(b)))
\* ~a on ints
IntNot(a) == -a - 1
\* v >> s (arithmetic on negative values)
Shr(v, s) == v \div Pow2(s)

\* What the signed subtraction a - b can leave behind.  In range it is the
\* difference.  Out of range the behaviour is undefined: the build may wrap,
\* saturate, or leave a value that looks like a valid size.
SubInt(a, b) ==
    IF InInt(a - b) THEN {a - b}
    ELSE {ToSigned(ToUnsigned(a - b)), INT_MAX, 1}

Max(a, b) == IF a >= b THEN a ELSE b
Min(a, b) == IF a <= b THEN a ELSE b

\* --------------------------------------------------------- pixel formats

PIX_FMT_NONE == "NONE"
EINVAL == 22

\* Descriptors of the formats of the allow-list that the model draws from:
\* max_step as av_fill_image_max_pixstep fills it, log2_chroma_w/h, the
\* PIX_FMT_PAL flag and the planes a frame of the format carries.
PixFmtDescriptors ==
    [ YUV411P  |-> [max_step |-> <<1, 1, 1, 0>>, log2_chroma_w |-> 2,
                    log2_chroma_h |-> 0, pal |-> FALSE, planes |-> {0, 1, 2}],
      YUVA420P |-> [max_step |-> <<1, 1, 1, 1>>, log2_chroma_w |-> 1,
                    log2_chroma_h |-> 1, pal |-> FALSE, planes |-> {0, 1, 2, 3}],
      RGB24    |-> [max_step |-> <<3, 0, 0, 0>>, log2_chroma_w |-> 0,
                    log2_chroma_h |-> 0, pal |-> FALSE, planes |-> {0}],
      PAL8     |-> [max_step |-> <<1, 0, 0, 0>>, log2_chroma_w |-> 0,
                    log2_chroma_h |-> 0, pal |-> TRUE, planes |-> {0, 1}] ]

pix_fmts == DOMAIN PixFmtDescriptors

\* ------------------------------------------------------------------ state

VARIABLES
    args,        \* the x:y:w:h that init parsed (kept for reference only)
    crop,        \* CropContext
    link,        \* the input link config_input last ran on: w, h, format
    linkState,   \* "unconfigured"; "failed": config_input returned
                 \* AVERROR(EINVAL); "resolved": it returned 0; "streaming":
                 \* the output link is configured too and frames flow
    ret,         \* what the last config_* call returned
    call,        \* the last handler invoked, its arguments and what it
                 \* wrote into the objects it was handed
    downstream   \* what that handler passed to outputs[0]

vars == <<args, crop, link, linkState, ret, call, downstream>>

\* What init's sscanf may have stored.
XYVals == {INT_MIN} \cup (-1 .. MaxArg)
WHVals == (-1 .. MaxArg) \cup {INT_MAX}

\* Input links the framework may configure the filter on.
LinkDims == (MaxDim - 1) .. MaxDim
Links == [w : LinkDims, h : LinkDims, format : pix_fmts]

\* init: the context is zero-filled, then sscanf stores the four numbers.
init(x, y, w, h) ==
    /\ args = [x |-> x, y |-> y, w |-> w, h |-> h]
    /\ crop = [x |-> x, y |-> y, w |-> w, h |-> h,
               max_step |-> <<0, 0, 0, 0>>, hsub |-> 0, vsub |-> 0]
    /\ link = [w |-> 0, h |-> 0, format |-> PIX_FMT_NONE]
    /\ linkState = "unconfigured"
    /\ ret = 0
    /\ call = [op |-> "init"]
    /\ downstream = <<>>

Init == \E x \in XYVals, y \in XYVals, w \in WHVals, h \in WHVals : init(x, y, w, h)

\* ----------------------------------------------------------- config_input

\* Variant: the offset is left as requested.
AlignOffsetNone(v, sub) == v

\* crop->x &= ~((1 << crop->hsub) - 1)
AlignOffset(v, sub) == IntAnd(v, IntNot(Pow2(sub) - 1))

\* Variant: the two sums are taken as (wrapping) ints, without the casts.
OutsideInputSignedSum(c, l) ==
    \/ c.x < 0
    \/ c.y < 0
    \/ c.w <= 0
    \/ c.h <= 0
    \/ ToSigned(UAdd(ToUnsigned(c.x), ToUnsigned(c.w))) > l.w
    \/ ToSigned(UAdd(ToUnsigned(c.y), ToUnsigned(c.h))) > l.h

\* The bounds test of config_input, on the context as it stands.
OutsideInput(c, l) ==
    \/ c.x < 0
    \/ c.y < 0
    \/ c.w <= 0
    \/ c.h <= 0
    \/ UAdd(ToUnsigned(c.x), ToUnsigned(c.w)) > ToUnsigned(l.w)
    \/ UAdd(ToUnsigned(c.y), ToUnsigned(c.h)) > ToUnsigned(l.h)

\* Variant: w and h are recomputed from the link on every call.
ResolvedAlwaysDefault(c, l, dw, dh) ==
    LET d == PixFmtDescriptors[l.format] IN
    [ x |-> AlignOffset(c.x, d.log2_chroma_w),
      y |-> AlignOffset(c.y, d.log2_chroma_h),
      w |-> dw,
      h |-> dh,
      max_step |-> d.max_step,
      hsub |-> d.log2_chroma_w,
      vsub |-> d.log2_chroma_h ]

\* The context after the defaulting and alignment of config_input on link l;
\* dw and dh are the results of the two subtractions.
Resolved(c, l, dw, dh) ==
    LET d == PixFmtDescriptors[l.format] IN
    [ x |-> AlignOffset(c.x, d.log2_chroma_w),
      y |-> AlignOffset(c.y, d.log2_chroma_h),
      w |-> IF c.w = 0 THEN dw ELSE c.w,
      h |-> IF c.h = 0 THEN dh ELSE c.h,
      max_step |-> d.max_step,
      hsub |-> d.log2_chroma_w,
      vsub |-> d.log2_chroma_h ]

\* The framework (avfilter_config_links) configures the links of a graph
\* before the first frame is pushed and not while frames flow, so the
\* handler runs on a link that is not streaming.
config_input(l) ==
    /\ linkState # "streaming"
    /\ \E dw \in SubInt(l.w, crop.x), dh \in SubInt(l.h, crop.y) :
          /\ crop' = Resolved(crop, l, dw, dh)
          /\ link' = l
          /\ IF OutsideInput(crop', l)
                THEN linkState' = "failed" /\ ret' = -EINVAL
                ELSE linkState' = "resolved" /\ ret' = 0
          /\ call' = [op |-> "config_input",
                      repeat |-> (linkState = "resolved" /\ l = link)]
          /\ downstream' = <<>>
          /\ UNCHANGED args

\* ---------------------------------------------------------- config_output

\* The framework configures the output link only once the input link's
\* config_props has returned 0; after it frames may flow.
config_output ==
    /\ linkState \in {"resolved", "streaming"}
    /\ call' = [op |-> "config_output", link_w |-> crop.w, link_h |-> crop.h]
    /\ ret' = 0
    /\ linkState' = "streaming"
    /\ downstream' = <<>>
    /\ UNCHANGED <<args, crop, link>>

\* ------------------------------------------------------------ start_frame

NULL == 0

\* Where the buffer of a frame keeps plane i (an address; NULL is 0).
PlaneAddr(i) == 4096 * (i + 1)

\* Bytes of padding a frame may carry at the end of each line.
Pads == {0, 1}

\* Frames the upstream filter may hand in on link l: planes as the format
\* has them, every line padded by pad bytes (more on the later planes, so
\* that no two planes share a line size by accident).
InputFrame(l, pad) ==
    LET d == PixFmtDescriptors[l.format]
        pw(i) == IF i \in {1, 2} THEN -Shr(-l.w, d.log2_chroma_w) ELSE l.w
        ls(i) == IF i \notin d.planes THEN 0
                 ELSE IF d.pal /\ i = 1 THEN 4
                 ELSE pw(i) * d.max_step[i + 1] + pad * (i + 1)
    IN [ data     |-> [i \in 0 .. 3 |-> IF i \in d.planes THEN PlaneAddr(i) ELSE NULL],
         linesize |-> [i \in 0 .. 3 |-> ls(i)],
         w |-> l.w, h |-> l.h ]

\* avfilter_ref_buffer: a new reference to the same buffer, with its own
\* copy of the plane pointers, line sizes and video properties.
avfilter_ref_buffer(ref) == ref

\* picref as start_frame leaves it.
PicrefAfter(c, picref) == [picref EXCEPT !.w = c.w, !.h = c.h]

\* data[0] of ref2: two additions.
Plane0(c, ref) == (ref.data[0] + c.y * ref.linesize[0]) + c.x * c.max_step[1]

\* Variant: the chroma planes are offset like the luma plane, by unshifted
\* rows and bytes.
PlaneChromaNoShift(c, pal, ref, i) ==
    IF ~pal /\ ref.data[i] # NULL
       THEN (ref.data[i] + c.y * ref.linesize[i]) + c.x * c.max_step[i + 1]
       ELSE ref.data[i]

\* data[i], i in {1, 2}, of ref2.
PlaneChroma(c, pal, ref, i) ==
    IF ~pal /\ ref.data[i] # NULL
       THEN (ref.data[i] + Shr(c.y, c.vsub) * ref.linesize[i])
            + Shr(c.x * c.max_step[i + 1], c.hsub)
       ELSE ref.data[i]

\* data[3] of ref2 (the alpha plane).
Plane3(c, ref) ==
    IF ref.data[3] # NULL
       THEN (ref.data[3] + c.y * ref.linesize[3]) + c.x * c.max_step[4]
       ELSE ref.data[3]

\* ref2 as start_frame passes it on.
Ref2(c, pal, picref) ==
    LET ref2 == avfilter_ref_buffer(picref) IN
    [ref2 EXCEPT !.data = [i \in 0 .. 3 |->
        CASE i = 0 -> Plane0(c, ref2)
          [] i \in {1, 2} -> PlaneChroma(c, pal, ref2, i)
          [] i = 3 -> Plane3(c, ref2)]]

start_frame(picref) ==
    /\ linkState = "streaming"
    /\ call' = [op |-> "start_frame", picref_in |-> picref,
                picref |-> PicrefAfter(crop, picref)]
    /\ downstream' = << [op |-> "start_frame",
                         ref |-> Ref2(crop, PixFmtDescriptors[link.format].pal, picref)] >>
    /\ UNCHANGED <<args, crop, link, linkState, ret>>

\* ------------------------------------------------------------- draw_slice

\* Variant: a slice that starts above the window is moved to the window's
\* first row but keeps its height.
ClipKeepsHeight(c, y, h) ==
    IF y >= c.y + c.h \/ y + h <= c.y THEN <<>>
    ELSE LET y1 == IF y < c.y THEN c.y ELSE y
             h2 == IF y1 + h > c.y + c.h THEN c.y + c.h - y1 ELSE h
         IN << [y |-> y1 - c.y, h |-> h2] >>

\* Variant: no early return for a slice that misses the window.
ClipNoReturn(c, y, h) ==
    LET h1 == IF y < c.y THEN h - (c.y - y) ELSE h
        y1 == IF y < c.y THEN c.y ELSE y
        h2 == IF y1 + h1 > c.y + c.h THEN c.y + c.h - y1 ELSE h1
    IN << [y |-> y1 - c.y, h |-> h2] >>

\* What draw_slice passes on for the slice (y, h): nothing, or one slice.
Clip(c, y, h) ==
    IF y >= c.y + c.h \/ y + h <= c.y THEN <<>>
    ELSE LET h1 == IF y < c.y THEN h - (c.y - y) ELSE h
             y1 == IF y < c.y THEN c.y ELSE y
             h2 == IF y1 + h1 > c.y + c.h THEN c.y + c.h - y1 ELSE h1
         IN << [y |-> y1 - c.y, h |-> h2] >>

draw_slice(y, h, slice_dir) ==
    /\ linkState = "streaming"
    /\ call' = [op |-> "draw_slice", y |-> y, h |-> h, slice_dir |-> slice_dir]
    /\ downstream' = [k \in DOMAIN Clip(crop, y, h) |->
                        [op |-> "draw_slice", y |-> Clip(crop, y, h)[k].y,
                         h |-> Clip(crop, y, h)[k].h, slice_dir |-> slice_dir]]
    /\ UNCHANGED <<args, crop, link, linkState, ret>>

\* ------------------------------------------------------------------- Next

Next ==
    \/ \E l \in Links : config_input(l)
    \/ config_output
    \/ \E pad \in Pads : start_frame(InputFrame(link, pad))
    \/ \E y \in 0 .. link.h : \E h \in 0 .. link.h - y : \E d \in {-1, 1} :
          draw_slice(y, h, d)

Spec == Init /\ [][Next]_vars

\* ----------------------------------------------------------- properties

Configured == linkState \in {"resolved", "streaming"}

\* C1: after a successful config_input, a requested w of 0 has become
\* input_w - x and a requested h of 0 has become input_h - y, with x and y
\* the aligned offsets of the resolved window.
C1_DefaultReachesInputEdge ==
    Configured =>
        /\ args.w = 0 => crop.w = link.w - crop.x
        /\ args.h = 0 => crop.h = link.h - crop.y

\* The rectangle lies outside the input or is empty, over the integers.
OutsideInputMath(c, l) ==
    \/ c.x < 0
    \/ c.y < 0
    \/ c.w <= 0
    \/ c.h <= 0
    \/ c.x + c.w > l.w
    \/ c.y + c.h > l.h

\* C2: config_input returns AVERROR(EINVAL) exactly when the rectangle it
\* holds after defaulting and alignment is empty or not inside the input
\* (sums over the integers), and returns 0 otherwise.
C2_ValidationExact ==
    call.op = "config_input" =>
        /\ ret \in {0, -EINVAL}
        /\ ret = -EINVAL <=> OutsideInputMath(crop, link)
        /\ linkState = (IF ret = 0 THEN "resolved" ELSE "failed")

\* config_input has rejected a rectangle whose only fault is a negative x,
\* and whose unsigned sum x + w wrapped around to a value inside the link.
C2_Witness ==
    /\ call.op = "config_input"
    /\ ret = -EINVAL
    /\ crop.x < 0 /\ crop.w > 0
    /\ UAdd(ToUnsigned(crop.x), ToUnsigned(crop.w)) <= link.w
    /\ crop.y >= 0 /\ crop.h > 0 /\ crop.y + crop.h <= link.h

\* C3: after a successful config_input the window has x >= 0, x a multiple
\* of 2^hsub, y >= 0, y a multiple of 2^vsub, w > 0, h > 0, x + w <= input_w
\* and y + h <= input_h.
C3_WindowInvariant ==
    Configured =>
        LET d == PixFmtDescriptors[link.format] IN
        /\ crop.x >= 0 /\ crop.x % Pow2(d.log2_chroma_w) = 0
        /\ crop.y >= 0 /\ crop.y % Pow2(d.log2_chroma_h) = 0
        /\ crop.w > 0 /\ crop.h > 0
        /\ crop.x + crop.w <= link.w
        /\ crop.y + crop.h <= link.h

\* A resolved window on a subsampled format whose x had to be aligned and
\* whose y is a non-zero multiple of 2^vsub.
C3_Witness ==
    /\ linkState = "resolved"
    /\ crop.hsub > 0 /\ crop.x # args.x
    /\ crop.vsub > 0 /\ crop.y > 0

\* C4: the reference start_frame passes downstream has the window's w and h.
C4_ForwardedRefHasWindowSize ==
    call.op = "start_frame" =>
        /\ Len(downstream) = 1
        /\ downstream[1].ref.w = crop.w
        /\ downstream[1].ref.h = crop.h

\* The plane offsets of C5, over the integers.
PlaneOffsetExpected(c, pal, ref, i) ==
    CASE i = 0 -> c.y * ref.linesize[0] + c.x * c.max_step[1]
      [] i \in {1, 2} ->
            IF pal \/ ref.data[i] = NULL THEN 0
            ELSE (c.y \div Pow2(c.vsub)) * ref.linesize[i]
                 + ((c.x * c.max_step[i + 1]) \div Pow2(c.hsub))
      [] i = 3 ->
            IF ref.data[3] = NULL THEN 0
            ELSE c.y * ref.linesize[3] + c.x * c.max_step[4]

\* The 4:2:0 example: x=4, y=6, w=100, h=80, luma stride 320, chroma 160.
ExampleCrop ==
    [x |-> 4, y |-> 6, w |-> 100, h |-> 80,
     max_step |-> <<1, 1, 1, 0>>, hsub |-> 1, vsub |-> 1]
ExampleFrame ==
    [data |-> [i \in 0 .. 3 |-> IF i = 3 THEN NULL ELSE PlaneAddr(i)],
     linesize |-> [i \in 0 .. 3 |-> CASE i = 0 -> 320 [] i = 3 -> 0 [] OTHER -> 160],
     w |-> 320, h |-> 240]
ExampleOffsets(c) ==
    [i \in 0 .. 3 |-> Ref2(c, FALSE, ExampleFrame).data[i] - ExampleFrame.data[i]]

\* C5: start_frame moves every plane pointer of the forwarded reference by
\* exactly the offset of its plane: y*stride + x*step on planes 0 and 3,
\* (y >> vsub)*stride + ((x*step) >> hsub) on planes 1 and 2 of a format
\* without palette, and 0 on palette planes and null planes.
C5_PlaneOffsets ==
    /\ call.op = "start_frame" =>
          /\ Len(downstream) = 1
          /\ \A i \in 0 .. 3 :
                downstream[1].ref.data[i] - call.picref_in.data[i]
                  = PlaneOffsetExpected(crop, PixFmtDescriptors[link.format].pal,
                                        call.picref_in, i)
          /\ downstream[1].ref.linesize = call.picref_in.linesize
    /\ ExampleOffsets(ExampleCrop) = [i \in 0 .. 3 |-> CASE i = 0 -> 1924 [] i = 3 -> 0 [] OTHER -> 482]
    /\ ExampleOffsets([ExampleCrop EXCEPT !.x = 0, !.y = 0]) = [i \in 0 .. 3 |-> 0]

\* A frame with chroma and alpha planes was offset by a window whose x and
\* y are both non-zero on a format subsampled in both directions.
C5_Witness ==
    /\ call.op = "start_frame"
    /\ crop.x > 0 /\ crop.y > 0 /\ crop.hsub > 0 /\ crop.vsub > 0
    /\ call.picref_in.data[1] # NULL /\ call.picref_in.data[3] # NULL
    /\ downstream[1].ref.data[1] # call.picref_in.data[1]

\* The window of the slice examples: y=10, h=50.
ExampleWindow ==
    [x |-> 0, y |-> 10, w |-> 64, h |-> 50,
     max_step |-> <<1, 1, 1, 0>>, hsub |-> 1, vsub |-> 1]

\* C6: for a slice of height > 0, draw_slice passes nothing on exactly when
\* the slice ends at or above the window's first row or starts at or below
\* its last; otherwise it passes on one slice, the intersection of the
\* slice with the window's rows in output coordinates, with slice_dir as it
\* came.
C6_SliceIsIntersection ==
    /\ (call.op = "draw_slice" /\ call.h > 0) =>
          LET lo == Max(call.y, crop.y)
              hi == Min(call.y + call.h, crop.y + crop.h)
          IN IF call.y + call.h <= crop.y \/ call.y >= crop.y + crop.h
                THEN downstream = <<>>
                ELSE downstream = << [op |-> "draw_slice", y |-> lo - crop.y,
                                      h |-> hi - lo, slice_dir |-> call.slice_dir] >>
    /\ Clip(ExampleWindow, 0, 15) = << [y |-> 0, h |-> 5] >>
    /\ Clip(ExampleWindow, 60, 5) = <<>>
    /\ Clip(ExampleWindow, 5, 60) = << [y |-> 0, h |-> 50] >>

\* A slice that sticks out of the window at both ends was clipped and
\* passed on.
C6_Witness ==
    /\ call.op = "draw_slice"
    /\ call.y < crop.y
    /\ call.y + call.h > crop.y + crop.h
    /\ Len(downstream) = 1

\* C7: every slice draw_slice passes on has a height >= 0, a start >= 0 and
\* ends within the window's h rows; and a slice of height > 0 is passed on
\* with a height > 0.
C7_ForwardedSliceInWindow ==
    call.op = "draw_slice" =>
        /\ 0 <= call.y /\ 0 <= call.h /\ call.y + call.h <= link.h
        /\ Len(downstream) <= 1
        /\ \A k \in DOMAIN downstream :
              /\ downstream[k].h >= 0
              /\ downstream[k].y >= 0
              /\ downstream[k].y + downstream[k].h <= crop.h
              /\ call.h > 0 => downstream[k].h > 0

\* A slice of height 0 strictly inside the window was passed on (with
\* height 0), and so was a slice cut at the window's last row.
C7_Witness ==
    /\ call.op = "draw_slice"
    /\ Len(downstream) = 1
    /\ \/ call.h = 0
       \/ call.y + call.h > crop.y + crop.h

\* C8: a config_input that returns AVERROR(EINVAL) leaves x, y, w, h as
\* they were before the call.
C8_FailureLeavesRectangle ==
    [][(call'.op = "config_input" /\ ret' = -EINVAL) =>
          /\ crop'.x = crop.x /\ crop'.y = crop.y
          /\ crop'.w = crop.w /\ crop'.h = crop.h]_vars

\* C9: once config_input has succeeded, config_output, start_frame,
\* draw_slice and a config_input on the same, unchanged link leave the
\* whole context (x, y, w, h, max_step, hsub, vsub) as it is.
C9_ResolvedContextStable ==
    [][(Configured /\ (call'.op # "config_input" \/ link' = link)) =>
          crop' = crop]_vars

\* config_input has run again on the link it had resolved, with a window
\* whose x had been aligned and whose w had been defaulted.
C9_Witness ==
    /\ call.op = "config_input" /\ call.repeat
    /\ linkState = "resolved"
    /\ args.w = 0 /\ crop.x # args.x

\* The outcome of config_input: the window, or failure.
Outcome(state, c) ==
    IF state = "failed" THEN <<"failed">>
    ELSE <<"resolved", c.x, c.y, c.w, c.h>>

\* The outcomes of a first config_input, on link l, of a filter that init
\* left with the arguments a.
FirstResolution(a, l) ==
    LET c0 == [x |-> a.x, y |-> a.y, w |-> a.w, h |-> a.h,
               max_step |-> <<0, 0, 0, 0>>, hsub |-> 0, vsub |-> 0]
    IN { Outcome(IF OutsideInput(Resolved(c0, l, dw, dh), l)
                    THEN "failed" ELSE "resolved",
                 Resolved(c0, l, dw, dh)) :
           dw \in SubInt(l.w, a.x), dh \in SubInt(l.h, a.y) }

\* C10: a config_input that runs after the link's dimensions or format
\* changed ends as a first resolution of the requested x:y:w:h on the new
\* link would.
C10_ReResolutionIsFirstResolution ==
    [][(call'.op = "config_input" /\ linkState # "unconfigured" /\ link' # link) =>
          Outcome(linkState', crop') \in FirstResolution(args, link')]_vars
====
